---- MODULE Spec2Model ----
(***************************************************************************)
(* Model of the copy-to extension: the command handler (extension.ts) and  *)
(* copyUtils.ts (resolvePath, getDestinationUri,                           *)
(* ensureDestinationDirectory, promptOverwrite, copySingleItem,            *)
(* formatDestinationForDisplay, copyToDestination).                        *)
(*                                                                         *)
(* Paths are sequences of one-character strings.  The destination is one   *)
(* directory whose entries are keyed by base name; the content of an entry *)
(* is a tuple: <<>> absent, <<"old">> present before any copy of this      *)
(* model, <<"partial">> left by a failed copy, <<dir, name>> the content   *)
(* of that source.                                                         *)
(***************************************************************************)
EXTENDS Integers, Sequences, FiniteSets, TLC

\* ---------------------------------------------------------------- bounds
MaxItems == 3
MaxPathLen == 5

\* ------------------------------------------------------------ path strings
Alphabet == {"/", "h", "u", "~", "."}
Paths == UNION {[1..n -> Alphabet] : n \in 0..MaxPathLen}

\* os.homedir()
Home == <<"/", "h">>

StartsWith(s, pre) ==
  /\ Len(s) >= Len(pre)
  /\ SubSeq(s, 1, Len(pre)) = pre

\* String.prototype.slice(n): the characters from index n (0-based) on
Slice(s, n) == IF n >= Len(s) THEN <<>> ELSE SubSeq(s, n + 1, Len(s))

\* s.split("/"): the segments between separators
RECURSIVE SplitSlash(_)
SplitSlash(s) ==
  IF \A i \in 1..Len(s) : s[i] # "/" THEN <<s>>
  ELSE LET k == CHOOSE i \in 1..Len(s) :
                  /\ s[i] = "/"
                  /\ \A j \in 1..(i - 1) : s[j] # "/"
       IN <<SubSeq(s, 1, k - 1)>> \o SplitSlash(Slice(s, k))

RECURSIVE JoinSlash(_)
JoinSlash(segs) ==
  IF segs = <<>> THEN <<>>
  ELSE IF Len(segs) = 1 THEN segs[1]
  ELSE segs[1] \o <<"/">> \o JoinSlash(Tail(segs))

\* posix normalizeString: drops empty and "." segments, resolves ".."
RECURSIVE NormalizeSegs(_, _, _)
NormalizeSegs(segs, stack, allowAboveRoot) ==
  IF segs = <<>> THEN stack
  ELSE LET seg == Head(segs)
           rest == Tail(segs)
       IN IF seg = <<>> \/ seg = <<".">>
          THEN NormalizeSegs(rest, stack, allowAboveRoot)
          ELSE IF seg = <<".", ".">>
          THEN IF stack # <<>> /\ stack[Len(stack)] # <<".", ".">>
               THEN NormalizeSegs(rest, SubSeq(stack, 1, Len(stack) - 1), allowAboveRoot)
               ELSE IF allowAboveRoot
               THEN NormalizeSegs(rest, Append(stack, seg), allowAboveRoot)
               ELSE NormalizeSegs(rest, stack, allowAboveRoot)
          ELSE NormalizeSegs(rest, Append(stack, seg), allowAboveRoot)

\* path.posix.normalize
PathNormalize(p) ==
  IF p = <<>> THEN <<".">>
  ELSE LET isAbsolute == p[1] = "/"
           trailingSeparator == p[Len(p)] = "/"
           body == JoinSlash(NormalizeSegs(SplitSlash(p), <<>>, ~isAbsolute))
       IN IF body = <<>>
          THEN IF isAbsolute THEN <<"/">>
               ELSE IF trailingSeparator THEN <<".", "/">> ELSE <<".">>
          ELSE LET withSep == IF trailingSeparator THEN body \o <<"/">> ELSE body
               IN IF isAbsolute THEN <<"/">> \o withSep ELSE withSep

\* path.posix.join(a, b): empty arguments are ignored, the rest joined by "/"
\* and normalized
PathJoin(a, b) ==
  IF a = <<>> /\ b = <<>> THEN <<".">>
  ELSE IF a = <<>> THEN PathNormalize(b)
  ELSE IF b = <<>> THEN PathNormalize(a)
  ELSE PathNormalize(a \o <<"/">> \o b)

resolvePath(inputPath) ==
  IF StartsWith(inputPath, <<"~">>)
  THEN PathJoin(Home, Slice(inputPath, 1))
  ELSE inputPath

formatDestinationForDisplay(destPath) ==
  IF StartsWith(destPath, Home)
  THEN <<"~">> \o Slice(destPath, Len(Home))
  ELSE destPath

\* ------------------------------------------------------- batch: the data
Names == {"f", "g"}
\* a source Uri: its directory and its base name; two of the three share
\* their base name
Sources == {[dir |-> "a", name |-> "f"], [dir |-> "b", name |-> "f"],
            [dir |-> "a", name |-> "g"]}
SourceLists == UNION {[1..n -> Sources] : n \in 0..MaxItems}

\* path.basename(sourceUri.fsPath)
Basename(src) == src.name

Absent == <<>>
Old == <<"old">>
Partial == <<"partial">>
ContentOf(src) == <<src.dir, src.name>>

\* the one destination directory of the model, and the values of the
\* copyTo.destinationPath setting: "" (not configured) and "~/u"
DestDir == <<"/", "h", "/", "u">>
Settings == {<<>>, <<"~", "/", "u">>}
\* showOpenDialog: undefined / [] (dismissed) or the one selected folder
PickerResults == {<<>>, <<DestDir>>}
\* showWarningMessage(modal): the label clicked, or undefined on dismissal
DialogResults == {"Overwrite", "Skip", "Cancel", "undefined"}
\* vscode.workspace.fs.copy: resolves, or throws (leaving the target as it
\* was, or leaving a partly written target)
CopyOutcomes == {"ok", "throwClean", "throwPartial"}

Msg(kind, copied, skipped, dest, name) ==
  [kind |-> kind, copied |-> copied, skipped |-> skipped, dest |-> dest, name |-> name]

VARIABLES
  pc,            \* "idle", "getDest", "ensure", "loop", "done"
  uris,          \* the source list handed to copyToDestination
  destExists,    \* file system: the destination directory exists
  entries,       \* file system: base name -> content of the entry
  setting,       \* configuredPath read by getDestinationUri
  picker,        \* "notShown", "dismissed", "picked"
  destUri,       \* [defined, fsPath]: result of getDestinationUri
  ensured,       \* "none", "true", "false": result of ensureDestinationDirectory
  createCalls,   \* createDirectory calls of this batch
  displayPath,
  idx,           \* position of the for loop (next item)
  copiedCount,
  skippedCount,
  log,           \* one record per copySingleItem invocation of this batch
  msgs,          \* messages shown during this invocation, in order
  startExists,   \* destExists when the batch started
  startEntries,  \* entries when the batch started
  pathIn,        \* path functions: the input string
  pathOut        \* path functions: [op, val] the last function applied

fsVars == <<destExists, entries>>
runVars == <<pc, uris, setting, picker, destUri, ensured, createCalls, displayPath,
             idx, copiedCount, skippedCount, log, msgs, startExists, startEntries>>
pathVars == <<pathIn, pathOut>>
vars == <<fsVars, runVars, pathVars>>

NoUri == [defined |-> FALSE, fsPath |-> <<>>]

\* variant: a dismissed picker falls back to the home directory
getDestinationUri_Fallback(configuredPath, selected) ==
  IF configuredPath # <<>>
  THEN [shown |-> FALSE, uri |-> [defined |-> TRUE, fsPath |-> resolvePath(configuredPath)]]
  ELSE IF Len(selected) > 0
  THEN [shown |-> TRUE, uri |-> [defined |-> TRUE, fsPath |-> selected[1]]]
  ELSE [shown |-> TRUE, uri |-> [defined |-> TRUE, fsPath |-> Home]]

\* ------------------------------------------------------------ the functions
\* getDestinationUri: the configured path if non-empty, else the picker
getDestinationUri(configuredPath, selected) ==
  IF configuredPath # <<>>
  THEN [shown |-> FALSE, uri |-> [defined |-> TRUE, fsPath |-> resolvePath(configuredPath)]]
  ELSE IF Len(selected) > 0
  THEN [shown |-> TRUE, uri |-> [defined |-> TRUE, fsPath |-> selected[1]]]
  ELSE [shown |-> TRUE, uri |-> NoUri]

\* variant: a failed createDirectory is reported but the result is true
ensureDestinationDirectory_IgnoreFailure(exists, createOk) ==
  IF exists
  THEN [ok |-> TRUE, exists |-> TRUE, creates |-> 0, errors |-> <<>>]
  ELSE IF createOk
  THEN [ok |-> TRUE, exists |-> TRUE, creates |-> 1, errors |-> <<>>]
  ELSE [ok |-> TRUE, exists |-> FALSE, creates |-> 1,
        errors |-> <<Msg("errCreateDir", 0, 0, <<>>, "")>>]

\* variant: createDirectory is called without the stat
ensureDestinationDirectory_AlwaysCreate(exists, createOk) ==
  IF createOk
  THEN [ok |-> TRUE, exists |-> TRUE, creates |-> 1, errors |-> <<>>]
  ELSE [ok |-> FALSE, exists |-> exists, creates |-> 1,
        errors |-> <<Msg("errCreateDir", 0, 0, <<>>, "")>>]

\* ensureDestinationDirectory: stat, and createDirectory when stat throws
ensureDestinationDirectory(exists, createOk) ==
  IF exists
  THEN [ok |-> TRUE, exists |-> TRUE, creates |-> 0, errors |-> <<>>]
  ELSE IF createOk
  THEN [ok |-> TRUE, exists |-> TRUE, creates |-> 1, errors |-> <<>>]
  ELSE [ok |-> FALSE, exists |-> FALSE, creates |-> 1,
        errors |-> <<Msg("errCreateDir", 0, 0, <<>>, "")>>]

\* variant: every target is reported as existing
targetExists_Always(ents, name) == TRUE

\* targetExists: stat of the target succeeds
targetExists(ents, name) == ents[name] # Absent

\* variant: a dismissed dialog counts as "Overwrite"
promptOverwrite_DefaultOverwrite(result) ==
  CASE result = "Cancel" -> "cancel"
    [] result = "Skip" -> "skip"
    [] OTHER -> "overwrite"

\* promptOverwrite: the switch over the dialog's result
promptOverwrite(result) ==
  CASE result = "Overwrite" -> "overwrite"
    [] result = "Skip" -> "skip"
    [] OTHER -> "cancel"

\* vscode.workspace.fs.copy(source, target, {overwrite: true})
FsCopy(ents, src, outcome) ==
  CASE outcome = "ok" -> [ents EXCEPT ![Basename(src)] = ContentOf(src)]
    [] outcome = "throwPartial" -> [ents EXCEPT ![Basename(src)] = Partial]
    [] OTHER -> ents

\* variant: a failed copy ends the batch
TryCopy_ThrowCancels(ents, src, outcome) ==
  IF outcome = "ok"
  THEN [result |-> "success", entries |-> FsCopy(ents, src, outcome),
        errors |-> <<>>, threw |-> FALSE]
  ELSE [result |-> "cancelled", entries |-> FsCopy(ents, src, outcome),
        errors |-> <<Msg("errCopy", 0, 0, <<>>, Basename(src))>>, threw |-> TRUE]

\* the try/catch around fs.copy: 'success', or an error message and 'skipped'
TryCopy(ents, src, outcome) ==
  IF outcome = "ok"
  THEN [result |-> "success", entries |-> FsCopy(ents, src, outcome),
        errors |-> <<>>, threw |-> FALSE]
  ELSE [result |-> "skipped", entries |-> FsCopy(ents, src, outcome),
        errors |-> <<Msg("errCopy", 0, 0, <<>>, Basename(src))>>, threw |-> TRUE]

\* variant: "skip" falls through to the copy
ConflictDecision_SkipCopies(existed, action) ==
  IF existed /\ action = "cancel" THEN "cancelled"
  ELSE "copy"

\* the early returns of copySingleItem: "cancelled", "skipped", or "copy" when
\* control reaches the try block
ConflictDecision(existed, action) ==
  IF existed /\ action = "cancel" THEN "cancelled"
  ELSE IF existed /\ action = "skip" THEN "skipped"
  ELSE "copy"

\* copySingleItem: result, the entries afterwards, the error messages shown,
\* and a record of what it did
copySingleItem(src, ents, dialogResult, outcome) ==
  LET fileName == Basename(src)
      existed == targetExists(ents, fileName)
      action == IF existed THEN promptOverwrite(dialogResult) ELSE "none"
      decision == ConflictDecision(existed, action)
      t == IF decision = "copy"
           THEN TryCopy(ents, src, outcome)
           ELSE [result |-> decision, entries |-> ents, errors |-> <<>>, threw |-> FALSE]
  IN [result |-> t.result, entries |-> t.entries, errors |-> t.errors,
      rec |-> [src |-> src,
               existed |-> existed,
               dialogs |-> IF existed THEN 1 ELSE 0,
               clicked |-> IF existed THEN dialogResult ELSE "notShown",
               action |-> action,
               copies |-> IF decision = "copy" THEN 1 ELSE 0,
               threw |-> t.threw,
               errs |-> Len(t.errors),
               before |-> ents[fileName],
               after |-> t.entries[fileName],
               result |-> t.result]]

\* variant: 'cancelled' breaks out of the switch only, the loop goes on
LoopSwitch_NoStop(result, copied, skipped) ==
  CASE result = "success" -> [copied |-> copied + 1, skipped |-> skipped, stop |-> FALSE]
    [] result = "skipped" -> [copied |-> copied, skipped |-> skipped + 1, stop |-> FALSE]
    [] OTHER -> [copied |-> copied, skipped |-> skipped, stop |-> FALSE]

\* the switch of the for loop: the counters afterwards, and whether the
\* function returns
LoopSwitch(result, copied, skipped) ==
  CASE result = "success" -> [copied |-> copied + 1, skipped |-> skipped, stop |-> FALSE]
    [] result = "skipped" -> [copied |-> copied, skipped |-> skipped + 1, stop |-> FALSE]
    [] OTHER -> [copied |-> copied, skipped |-> skipped, stop |-> TRUE]

\* variant: the skipped counter is tested first
CompletionMessage_SkippedFirst(copied, skipped, display) ==
  IF skipped > 0
  THEN <<Msg("allSkipped", 0, skipped, <<>>, "")>>
  ELSE IF copied > 0
  THEN <<Msg("copied", copied, 0, display, "")>>
  ELSE <<>>

\* the completion message after the loop
CompletionMessage(copied, skipped, display) ==
  IF copied > 0
  THEN IF skipped > 0
       THEN <<Msg("copiedSkipped", copied, skipped, display, "")>>
       ELSE <<Msg("copied", copied, 0, display, "")>>
  ELSE IF skipped > 0
  THEN <<Msg("allSkipped", 0, skipped, <<>>, "")>>
  ELSE <<>>

\* the message of the 'cancelled' case of the loop
CancelledMessage(copied, skipped) == <<Msg("cancelled", copied, skipped, <<>>, "")>>

\* the command handler's targets: uris ?? (uri ? [uri] : [])
Targets(uriArg, urisArg) ==
  IF urisArg.defined THEN urisArg.val
  ELSE IF Len(uriArg) > 0 THEN <<uriArg[1]>> ELSE <<>>

\* ------------------------------------------------------------------- Init
Init ==
  /\ pc = "idle"
  /\ uris = <<>>
  /\ destExists \in BOOLEAN
  /\ entries \in [Names -> {Absent, Old}]
  /\ (~destExists => \A n \in Names : entries[n] = Absent)
  /\ setting = <<>>
  /\ picker = "notShown"
  /\ destUri = NoUri
  /\ ensured = "none"
  /\ createCalls = 0
  /\ displayPath = <<>>
  /\ idx = 1
  /\ copiedCount = 0
  /\ skippedCount = 0
  /\ log = <<>>
  /\ msgs = <<>>
  /\ startExists = destExists
  /\ startEntries = entries
  /\ pathIn = <<>>
  /\ pathOut = [op |-> "none", val |-> <<>>]

\* what an invocation starts from: nothing of an earlier one but the files
FreshRun(list, nextPc, shown) ==
  /\ uris' = list
  /\ pc' = nextPc
  /\ msgs' = shown
  /\ setting' = <<>>
  /\ picker' = "notShown"
  /\ destUri' = NoUri
  /\ ensured' = "none"
  /\ createCalls' = 0
  /\ displayPath' = <<>>
  /\ idx' = 1
  /\ copiedCount' = 0
  /\ skippedCount' = 0
  /\ log' = <<>>
  /\ startExists' = destExists
  /\ startEntries' = entries
  /\ UNCHANGED <<fsVars, pathVars>>

\* the registered command: warn on an empty selection, else copyToDestination
Command ==
  /\ pc = "idle"
  /\ \E uriArg \in {<<>>} \cup {<<s>> : s \in Sources},
        urisArg \in {[defined |-> FALSE, val |-> <<>>]}
                      \cup {[defined |-> TRUE, val |-> l] : l \in SourceLists} :
       /\ urisArg.defined /\ urisArg.val # <<>> /\ uriArg # <<>> => urisArg.val[1] = uriArg[1]
       /\ LET targets == Targets(uriArg, urisArg)
          IN IF Len(targets) = 0
             THEN FreshRun(targets, "done", <<Msg("warnNoSelection", 0, 0, <<>>, "")>>)
             ELSE FreshRun(targets, "getDest", <<>>)

\* copyToDestination is exported: a call with any list, the empty one included
CallCopyToDestination ==
  /\ pc = "idle"
  /\ \E list \in SourceLists : FreshRun(list, "getDest", <<>>)

\* copyToDestination, up to the return of getDestinationUri
GetDestination ==
  /\ pc = "getDest"
  /\ \E configuredPath \in Settings, selected \in PickerResults :
       LET r == getDestinationUri(configuredPath, selected)
       IN /\ setting' = configuredPath
          /\ picker' = IF ~r.shown THEN "notShown"
                       ELSE IF Len(selected) > 0 THEN "picked" ELSE "dismissed"
          /\ destUri' = r.uri
          /\ pc' = IF r.uri.defined THEN "ensure" ELSE "done"
  /\ UNCHANGED <<uris, ensured, createCalls, displayPath, idx, copiedCount, skippedCount,
                 log, msgs, startExists, startEntries, fsVars, pathVars>>

\* copyToDestination, from ensureDestinationDirectory to the first item (or,
\* for an empty list, to the end of the function)
EnsureDestination ==
  /\ pc = "ensure"
  /\ \E createOk \in BOOLEAN :
       LET r == ensureDestinationDirectory(destExists, createOk)
       IN /\ destExists' = r.exists
          /\ createCalls' = createCalls + r.creates
          /\ ensured' = IF r.ok THEN "true" ELSE "false"
          /\ IF ~r.ok
             THEN /\ pc' = "done"
                  /\ msgs' = msgs \o r.errors
                  /\ UNCHANGED displayPath
             ELSE /\ displayPath' = formatDestinationForDisplay(destUri.fsPath)
                  /\ IF Len(uris) = 0
                     THEN /\ pc' = "done"
                          /\ msgs' = msgs \o r.errors \o CompletionMessage(0, 0, displayPath')
                     ELSE /\ pc' = "loop"
                          /\ msgs' = msgs \o r.errors
  /\ idx' = 1
  /\ copiedCount' = 0
  /\ skippedCount' = 0
  /\ UNCHANGED <<uris, entries, setting, picker, destUri, log, startExists, startEntries,
                 pathVars>>

\* one iteration of the for loop: copySingleItem and the switch; after the
\* last item, the completion message
CopyItem ==
  /\ pc = "loop"
  /\ idx <= Len(uris)
  /\ \E dialogResult \in DialogResults, outcome \in CopyOutcomes :
       LET r == copySingleItem(uris[idx], entries, dialogResult, outcome)
           sw == LoopSwitch(r.result, copiedCount, skippedCount)
       IN /\ entries' = r.entries
          /\ log' = Append(log, r.rec)
          /\ copiedCount' = sw.copied
          /\ skippedCount' = sw.skipped
          /\ IF sw.stop
             THEN /\ msgs' = msgs \o r.errors \o CancelledMessage(sw.copied, sw.skipped)
                  /\ pc' = "done"
                  /\ idx' = idx
             ELSE /\ idx' = idx + 1
                  /\ IF idx = Len(uris)
                     THEN /\ msgs' = msgs \o r.errors
                                       \o CompletionMessage(sw.copied, sw.skipped, displayPath)
                          /\ pc' = "done"
                     ELSE /\ msgs' = msgs \o r.errors
                          /\ pc' = "loop"
  /\ UNCHANGED <<uris, destExists, setting, picker, destUri, ensured, createCalls,
                 displayPath, startExists, startEntries, pathVars>>

\* the invocation has returned: its locals and its messages are gone, the
\* files stay
Return ==
  /\ pc = "done"
  /\ FreshRun(<<>>, "idle", <<>>)

Next ==
  \/ Command
  \/ CallCopyToDestination
  \/ GetDestination
  \/ EnsureDestination
  \/ CopyItem
  \/ Return

Spec == Init /\ [][Next]_vars

\* ------------------------------------------- the path functions on their own
InitPath ==
  /\ pc = "idle"
  /\ uris = <<>>
  /\ destExists = TRUE
  /\ entries = [n \in Names |-> Absent]
  /\ setting = <<>>
  /\ picker = "notShown"
  /\ destUri = NoUri
  /\ ensured = "none"
  /\ createCalls = 0
  /\ displayPath = <<>>
  /\ idx = 1
  /\ copiedCount = 0
  /\ skippedCount = 0
  /\ log = <<>>
  /\ msgs = <<>>
  /\ startExists = destExists
  /\ startEntries = entries
  /\ pathIn \in Paths
  /\ pathOut = [op |-> "none", val |-> <<>>]

ApplyResolve ==
  /\ pathOut' = [op |-> "resolve", val |-> resolvePath(pathIn)]
  /\ UNCHANGED <<pathIn, fsVars, runVars>>

ApplyFormat ==
  /\ pathOut' = [op |-> "format", val |-> formatDestinationForDisplay(pathIn)]
  /\ UNCHANGED <<pathIn, fsVars, runVars>>

NextPath ==
  \/ ApplyResolve
  \/ ApplyFormat

SpecPath == InitPath /\ [][NextPath]_vars

\* ------------------------------------------------------------ properties
SummaryKinds == {"cancelled", "copied", "copiedSkipped", "allSkipped"}
IsSummary(m) == m.kind \in SummaryKinds
IsCopyError(m) == m.kind = "errCopy"
SummaryMsgs == SelectSeq(msgs, IsSummary)
CopyErrorMsgs == SelectSeq(msgs, IsCopyError)
\* how many of the first k invocations of copySingleItem ended in res
CountResult(k, res) == Cardinality({i \in 1..k : log[i].result = res})
Threw(r) == r.threw
NoCancel == \A k \in 1..Len(log) : log[k].clicked \notin {"Cancel", "undefined"}
DistinctBaseNames ==
  \A i, j \in 1..Len(uris) : i # j => Basename(uris[i]) # Basename(uris[j])
NoConflictAtStart == \A i \in 1..Len(uris) : startEntries[Basename(uris[i])] = Absent
NoCopyThrew == \A k \in 1..Len(log) : ~log[k].threw

\* C1: when the conflict dialog of item k is answered with cancel, item k is
\* not copied, it is the last item the batch ever touches (no check, dialog
\* or copy for k+1..n), the batch is over, and the one summary shown is the
\* "Cancelled" message with the numbers of 'success' and 'skipped' outcomes
\* among items 1..k-1.
C1_CancelStopsBatch ==
  \A k \in 1..Len(log) :
    log[k].existed /\ log[k].clicked \in {"Cancel", "undefined"} =>
      /\ k = Len(log)
      /\ pc = "done"
      /\ log[k].copies = 0
      /\ log[k].after = log[k].before
      /\ log[k].result = "cancelled"
      /\ SummaryMsgs = <<Msg("cancelled", CountResult(k - 1, "success"),
                             CountResult(k - 1, "skipped"), <<>>, "")>>
      /\ copiedCount = CountResult(k - 1, "success")
      /\ skippedCount = CountResult(k - 1, "skipped")

C1_Witness ==
  /\ pc = "done"
  /\ Len(uris) = 3
  /\ Len(log) = 2
  /\ log[1].result = "success"
  /\ log[2].clicked = "Cancel"
  /\ SummaryMsgs = <<Msg("cancelled", 1, 0, <<>>, "")>>

\* C2: an item whose target exists and for which the user chooses "skip" is
\* not copied, leaves the entries of the destination as they were, adds one
\* to the skipped counter and leaves the copied counter alone.
C2_SkipLeavesTarget ==
  [][ (/\ Len(log') = Len(log) + 1
       /\ log'[Len(log')].existed
       /\ log'[Len(log')].clicked = "Skip")
      => (/\ log'[Len(log')].copies = 0
          /\ log'[Len(log')].after = log'[Len(log')].before
          /\ entries' = entries
          /\ skippedCount' = skippedCount + 1
          /\ copiedCount' = copiedCount) ]_vars

C2_Witness ==
  \E k \in 1..Len(log) :
    /\ log[k].clicked = "Skip"
    /\ log[k].before = Old
    /\ entries[Basename(log[k].src)] = Old
    /\ skippedCount >= 1

\* C3 as stated: a finished batch over a non-empty list, with the destination
\* ensured, no copy failing and no entry bearing the base name of a source at
\* the start, showed no dialog, made every item a 'success' and reported
\* copied = length of the list, skipped = 0.
C3_Original ==
  (/\ pc = "done"
   /\ Len(uris) > 0
   /\ ensured = "true"
   /\ NoCopyThrew
   /\ NoConflictAtStart)
  => (/\ Len(log) = Len(uris)
      /\ \A k \in 1..Len(log) : log[k].dialogs = 0 /\ log[k].result = "success"
      /\ msgs = <<Msg("copied", Len(uris), 0, displayPath, "")>>)

\* C3 amended: the same, for source lists whose base names are pairwise
\* distinct.
C3_NoConflictAllSuccess ==
  (/\ pc = "done"
   /\ Len(uris) > 0
   /\ ensured = "true"
   /\ NoCopyThrew
   /\ NoConflictAtStart
   /\ DistinctBaseNames)
  => (/\ Len(log) = Len(uris)
      /\ \A k \in 1..Len(log) : log[k].dialogs = 0 /\ log[k].result = "success"
      /\ copiedCount = Len(uris)
      /\ skippedCount = 0
      /\ msgs = <<Msg("copied", Len(uris), 0, displayPath, "")>>)

C3_Witness ==
  /\ pc = "done"
  /\ Len(uris) = 2
  /\ DistinctBaseNames
  /\ NoConflictAtStart
  /\ createCalls = 1
  /\ copiedCount = 2
  /\ msgs = <<Msg("copied", 2, 0, <<"~", "/", "u">>, "")>>

\* C4: with an empty configured destination and a dismissed folder picker the
\* batch is over with no createDirectory, no copy, no stat or dialog on any
\* item, no message, and the files as they were.
C4_DismissedPickerNoEffect ==
  (setting = <<>> /\ picker = "dismissed")
  => (/\ pc = "done"
      /\ ~destUri.defined
      /\ ensured = "none"
      /\ createCalls = 0
      /\ log = <<>>
      /\ msgs = <<>>
      /\ destExists = startExists
      /\ entries = startEntries)

C4_Witness ==
  /\ picker = "dismissed"
  /\ pc = "done"
  /\ Len(uris) = 3
  /\ ~destExists

\* C6: when createDirectory fails, ensureDestinationDirectory returns false,
\* the one message shown is the "Failed to create destination directory"
\* error, and the batch is over with no item touched and no summary.
C6_CreateFailureIsFatal ==
  (createCalls > 0 /\ ~destExists)
  => (/\ ensured = "false"
      /\ pc = "done"
      /\ createCalls = 1
      /\ msgs = <<Msg("errCreateDir", 0, 0, <<>>, "")>>
      /\ log = <<>>
      /\ entries = startEntries)

C6_Witness ==
  /\ ensured = "false"
  /\ createCalls = 1
  /\ Len(uris) = 3
  /\ msgs = <<Msg("errCreateDir", 0, 0, <<>>, "")>>

\* C7: an item whose copy fails is 'skipped' (it counts as skipped, not as
\* copied), one error message naming its file is shown for it, and the batch
\* goes on: the items are processed in the order of the list, and unless a
\* dialog is answered with cancel all of them are processed.
C7_CopyFailureIsSkip ==
  /\ \A k \in 1..Len(log) :
       /\ log[k].src = uris[k]
       /\ log[k].threw => /\ log[k].copies = 1
                          /\ log[k].errs = 1
                          /\ log[k].result = "skipped"
                          /\ log[k].action \in {"none", "overwrite"}
  /\ copiedCount = CountResult(Len(log), "success")
  /\ skippedCount = CountResult(Len(log), "skipped")
  /\ LET failed == SelectSeq(log, Threw)
     IN /\ Len(CopyErrorMsgs) = Len(failed)
        /\ \A i \in 1..Len(failed) : CopyErrorMsgs[i].name = Basename(failed[i].src)
  /\ (pc = "loop" => idx = Len(log) + 1 /\ idx <= Len(uris))
  /\ (pc = "done" /\ ensured = "true" /\ NoCancel => Len(log) = Len(uris))

C7_Witness ==
  /\ pc = "done"
  /\ Len(log) = 3
  /\ log[1].threw /\ log[1].action = "none"
  /\ log[2].threw /\ log[2].action = "overwrite"
  /\ log[3].result = "success"
  /\ Len(CopyErrorMsgs) = 2

\* C8: ensureDestinationDirectory on a destination that exists returns true,
\* calls no createDirectory, shows no message and leaves the files as they
\* are, each time it is called.
C8_EnsureIdempotent ==
  [][ (pc = "ensure" /\ destExists /\ pc' # "ensure")
      => (/\ ensured' = "true"
          /\ createCalls' = 0
          /\ destExists'
          /\ entries' = entries
          /\ \A i \in 1..Len(msgs') : msgs'[i].kind # "errCreateDir") ]_vars

\* a later batch on a destination an earlier batch has copied to
C8_Witness ==
  /\ ensured = "true"
  /\ startExists
  /\ createCalls = 0
  /\ \E n \in Names : startEntries[n] \in {ContentOf(s) : s \in Sources}

\* C9: a batch that went through the whole list without a cancel shows at
\* most one summary, chosen from the final counters, and the counters add up
\* to the length of the list.
C9_CompletionSummary ==
  (pc = "done" /\ ensured = "true" /\ NoCancel)
  => (/\ copiedCount + skippedCount = Len(uris)
      /\ SummaryMsgs =
           IF copiedCount > 0
           THEN IF skippedCount > 0
                THEN <<Msg("copiedSkipped", copiedCount, skippedCount, displayPath, "")>>
                ELSE <<Msg("copied", copiedCount, 0, displayPath, "")>>
           ELSE IF skippedCount > 0
           THEN <<Msg("allSkipped", 0, skippedCount, <<>>, "")>>
           ELSE <<>>)

C9_Witness ==
  /\ pc = "done"
  /\ NoCancel
  /\ copiedCount = 2
  /\ skippedCount = 1
  /\ SummaryMsgs = <<Msg("copiedSkipped", 2, 1, <<"~", "/", "u">>, "")>>

\* C10: one invocation of copySingleItem makes at most one copy call, shows
\* at most one dialog and at most one error; the dialog is shown exactly when
\* the target existed at the check, the copy is made exactly when the target
\* did not exist or the user clicked "Overwrite" (never after "Skip",
\* "Cancel" or a dismissal), and an entry that existed is changed only after
\* "Overwrite".
C10_OneEffectPerItem ==
  \A k \in 1..Len(log) :
    /\ log[k].dialogs \in {0, 1}
    /\ log[k].copies \in {0, 1}
    /\ log[k].errs \in {0, 1}
    /\ log[k].existed <=> log[k].before # Absent
    /\ log[k].dialogs = 1 <=> log[k].existed
    /\ log[k].copies = 1 <=> (~log[k].existed \/ log[k].clicked = "Overwrite")
    /\ log[k].clicked \in {"Skip", "Cancel", "undefined"} => log[k].copies = 0
    /\ log[k].clicked = "undefined" => log[k].result = "cancelled"
    /\ log[k].copies = 0 => log[k].after = log[k].before /\ log[k].errs = 0
    /\ (log[k].existed /\ log[k].after # log[k].before) => log[k].clicked = "Overwrite"

C10_Witness ==
  /\ Len(log) = 3
  /\ log[1].clicked = "Overwrite" /\ log[1].before = Old /\ log[1].after = ContentOf(log[1].src)
  /\ log[2].clicked = "Skip"
  /\ log[3].clicked = "undefined" /\ log[3].copies = 0

\* C5 as stated: for every path p that starts with the home directory,
\* resolvePath(formatDestinationForDisplay(p)) = p, and for every path q that
\* starts with "~/", formatDestinationForDisplay(resolvePath(q)) = q.
C5_ExactInverses ==
  /\ (pathOut.op = "format" /\ StartsWith(pathIn, Home))
       => resolvePath(pathOut.val) = pathIn
  /\ (pathOut.op = "resolve" /\ StartsWith(pathIn, <<"~", "/">>))
       => formatDestinationForDisplay(pathOut.val) = pathIn

====
